---- MODULE Spec2Model ----
(***************************************************************************)
(* A state-machine model of the CHIP-8 interpreter of this repository:     *)
(* the Cpu struct of src/src/cpu.rs (memory, registers, stack, timers,     *)
(* display, keypad), its fetch / decode / run cycle and its instructions,  *)
(* and the Chip8 wrapper of src/src/chip8.rs that the host loop drives.    *)
(*                                                                         *)
(* A Rust panic (index out of range, arithmetic overflow in a build with   *)
(* overflow checks, the panic! of decode) aborts the process: the model    *)
(* records it in cpu.panic and no operation is enabled afterwards.         *)
(***************************************************************************)
EXTENDS Integers, Sequences, FiniteSets, TLC

VARIABLES
    cpu,              \* the Cpu struct, plus cpu.panic ("none" while the process lives)
    overflow_checks,  \* build profile: TRUE = debug (overflow panics), FALSE = release (wraps)
    lastAct,          \* history: the operation performed last
    lastOpcode,       \* history: the opcode the last run()/decode() was given (-1: none)
    lastInstr,        \* history: the instruction decode dispatched to ("": none)
    lastRnd,          \* history: the random byte drawn by the last run()
    lastTick,         \* history: whether the last run() ticked the timers
    lastDt,           \* history: microseconds that passed up to the last run()'s clock reading
    callLog,          \* history: the calls not yet returned from, oldest first
    flags,            \* the should-beep and display-updated flags the host polls
    lastRom,          \* history: index in Roms of the ROM given to load (0: none)
    loadResult,       \* history: what load_rom returned ("none" if it did not return)
    lastKey,          \* history: the key index of the last press_key/release_key (-1: none)
    lastDisplay       \* history: the display as it was before the last operation

vars == <<cpu, overflow_checks, lastAct, lastOpcode, lastInstr, lastRnd, lastTick,
          lastDt, callLog, flags, lastRom, loadResult, lastKey,
          lastDisplay>>

-----------------------------------------------------------------------------
(* Program constants *)

MEMORY_SIZE == 4096
DISPLAY_WIDTH == 64
DISPLAY_HEIGHT == 32
START_ADDRESS == 512
FONT_ADDRESS == 80
U8_MAX == 255
TIMER_RATE == 16667

CHIP8_FONT ==
    << 240, 144, 144, 144, 240,
        32,  96,  32,  32, 112,
       240,  16, 240, 128, 240,
       240,  16, 240,  16, 240,
       144, 144, 240,  16,  16,
       240, 128, 240,  16, 240,
       240, 128, 240, 144, 240,
       240,  16,  32,  64,  64,
       240, 144, 240, 144, 240,
       240, 144, 240,  16, 240,
       240, 144, 240, 144, 144,
       224, 144, 224, 144, 224,
       240, 128, 128, 128, 240,
       224, 144, 144, 144, 224,
       240, 128, 240, 128, 240,
       240, 128, 240, 128, 128 >>

-----------------------------------------------------------------------------
(* Bitwise operations on unsigned integers *)

RECURSIVE BitOr(_, _)
BitOr(a, b) ==
    IF a = 0 THEN b
    ELSE IF b = 0 THEN a
    ELSE (IF a % 2 = 1 \/ b % 2 = 1 THEN 1 ELSE 0) + 2 * BitOr(a \div 2, b \div 2)

RECURSIVE BitAnd(_, _)
BitAnd(a, b) ==
    IF a = 0 \/ b = 0 THEN 0
    ELSE (IF a % 2 = 1 /\ b % 2 = 1 THEN 1 ELSE 0) + 2 * BitAnd(a \div 2, b \div 2)

RECURSIVE BitXor(_, _)
BitXor(a, b) ==
    IF a = 0 THEN b
    ELSE IF b = 0 THEN a
    ELSE (IF a % 2 # b % 2 THEN 1 ELSE 0) + 2 * BitXor(a \div 2, b \div 2)

RECURSIVE Pow2(_)
Pow2(k) == IF k = 0 THEN 1 ELSE 2 * Pow2(k - 1)

Shr(a, k) == a \div Pow2(k)

\* a << k in an unsigned type of w bits: the bits shifted out are lost
Shl(a, k, w) == (a * Pow2(k)) % Pow2(w)

Panicked(s) == s.panic # "none"

Panic(s, why) == [s EXCEPT !.panic = why]

-----------------------------------------------------------------------------
(* Cpu::new. tick_period is a time::Instant, which the program only reads  *)
(* through tick_period.elapsed(): the field holds the microseconds between *)
(* that Instant and the program's latest reading of the clock.             *)

\* Cpu::new with the font copied one byte too far up
CpuNew_FontShifted ==
    [ memory      |-> [a \in 0 .. MEMORY_SIZE - 1 |->
                          IF a >= FONT_ADDRESS + 1 /\ a < FONT_ADDRESS + 1 + Len(CHIP8_FONT)
                          THEN CHIP8_FONT[a - FONT_ADDRESS]
                          ELSE 0],
      pc          |-> START_ADDRESS,
      v           |-> [r \in 0 .. 15 |-> 0],
      i           |-> 0,
      stack       |-> [k \in 0 .. 15 |-> 0],
      sp          |-> 0,
      delay_timer |-> 0,
      sound_timer |-> 0,
      display     |-> [c \in 0 .. DISPLAY_WIDTH * DISPLAY_HEIGHT - 1 |-> FALSE],
      keypad      |-> [k \in 0 .. 15 |-> FALSE],
      tick_period |-> 0,
      panic       |-> "none" ]

CpuNew ==
    LET aux_memory == [a \in 0 .. MEMORY_SIZE - 1 |->
                          IF a >= FONT_ADDRESS /\ a < FONT_ADDRESS + Len(CHIP8_FONT)
                          THEN CHIP8_FONT[a - FONT_ADDRESS + 1]
                          ELSE 0]
    IN  [ memory      |-> aux_memory,
          pc          |-> START_ADDRESS,
          v           |-> [r \in 0 .. 15 |-> 0],
          i           |-> 0,
          stack       |-> [k \in 0 .. 15 |-> 0],
          sp          |-> 0,
          delay_timer |-> 0,
          sound_timer |-> 0,
          display     |-> [c \in 0 .. DISPLAY_WIDTH * DISPLAY_HEIGHT - 1 |-> FALSE],
          keypad      |-> [k \in 0 .. 15 |-> FALSE],
          tick_period |-> 0,
          panic       |-> "none" ]

-----------------------------------------------------------------------------
(* Cpu::load_rom_in_memory: memory[0x200 .. 0x200 + len] is a slice of the   *)
(* memory array; a range that ends past the array panics.                    *)

\* load_rom_in_memory that rebuilds the memory from zeroes around the ROM
load_rom_in_memory_Rebuilds(s, rom_data) ==
    IF START_ADDRESS + Len(rom_data) > MEMORY_SIZE
    THEN Panic(s, "IndexOutOfBounds")
    ELSE [s EXCEPT !.memory =
             [a \in 0 .. MEMORY_SIZE - 1 |->
                 IF a >= START_ADDRESS /\ a < START_ADDRESS + Len(rom_data)
                 THEN rom_data[a - START_ADDRESS + 1]
                 ELSE 0]]

(* A load that copies the part of the ROM that fits below the end of memory  *)
(* and returns, instead of aborting the process on the out-of-range slice.   *)
load_rom_in_memory_Truncates(s, rom_data) ==
    [s EXCEPT !.memory =
        [a \in 0 .. MEMORY_SIZE - 1 |->
            IF a >= START_ADDRESS /\ a < START_ADDRESS + Len(rom_data)
            THEN rom_data[a - START_ADDRESS + 1]
            ELSE s.memory[a]]]

load_rom_in_memory(s, rom_data) ==
    LET initial_address == START_ADDRESS
        final_address   == START_ADDRESS + Len(rom_data)
    IN  IF final_address > MEMORY_SIZE
        THEN Panic(s, "IndexOutOfBounds")
        ELSE [s EXCEPT !.memory =
                 [a \in 0 .. MEMORY_SIZE - 1 |->
                     IF a >= initial_address /\ a < final_address
                     THEN rom_data[a - initial_address + 1]
                     ELSE s.memory[a]]]

-----------------------------------------------------------------------------
(* Cpu::fetch: two bounds-checked reads of memory, combined big-endian.      *)

FetchInRange(s) == s.pc < MEMORY_SIZE /\ s.pc + 1 < MEMORY_SIZE

\* fetch that combines the two bytes little-endian
fetch_LittleEndian(s) ==
    BitOr(Shl(s.memory[s.pc + 1], 8, 16), s.memory[s.pc])

fetch(s) ==
    LET op1 == s.memory[s.pc]
        op2 == s.memory[s.pc + 1]
    IN  BitOr(Shl(op1, 8, 16), op2)

-----------------------------------------------------------------------------
(* The instructions. Each takes the Cpu and returns the Cpu after it.        *)

\* 00E0 that clears the first row of the display only
instruction_00e0_ClearsFirstRow(s) ==
    [s EXCEPT !.display = [c \in 0 .. DISPLAY_WIDTH * DISPLAY_HEIGHT - 1 |->
                              c >= DISPLAY_WIDTH /\ s.display[c]]]

instruction_00e0(s) ==
    [s EXCEPT !.display = [c \in 0 .. DISPLAY_WIDTH * DISPLAY_HEIGHT - 1 |-> FALSE]]

\* sp is a usize: it is kept as its two's-complement representative, so that
\* -1 stands for usize::MAX, the value 0 - 1 wraps to in a release build.
instruction_00ee(s, oc) ==
    IF ~(s.sp >= 0 /\ s.sp < 16)
    THEN Panic(s, "IndexOutOfBounds")
    ELSE LET s1 == [s EXCEPT !.pc = s.stack[s.sp]]
         IN  IF s1.sp = 0 /\ oc
             THEN Panic(s1, "ArithmeticOverflow")
             ELSE [s1 EXCEPT !.sp = s1.sp - 1]

instruction_1nnn(s, nnn) == [s EXCEPT !.pc = nnn]

\* 2nnn that saves the return address in stack[sp] and then increments sp
instruction_2nnn_PushThenAdvance(s, nnn) ==
    IF ~(s.sp >= 0 /\ s.sp < 16)
    THEN Panic(s, "IndexOutOfBounds")
    ELSE [s EXCEPT !.stack[s.sp] = s.pc, !.sp = s.sp + 1, !.pc = nnn]

instruction_2nnn(s, nnn) ==
    LET s1 == [s EXCEPT !.sp = s.sp + 1]
    IN  IF ~(s1.sp >= 0 /\ s1.sp < 16)
        THEN Panic(s1, "IndexOutOfBounds")
        ELSE [s1 EXCEPT !.stack[s1.sp] = s1.pc, !.pc = nnn]

instruction_3xnn(s, x, nn) ==
    IF s.v[x] = nn THEN [s EXCEPT !.pc = s.pc + 2] ELSE s

\* 4xnn with the test of 3xnn
instruction_4xnn_SkipsOnEqual(s, x, nn) ==
    IF s.v[x] = nn THEN [s EXCEPT !.pc = s.pc + 2] ELSE s

instruction_4xnn(s, x, nn) ==
    IF s.v[x] # nn THEN [s EXCEPT !.pc = s.pc + 2] ELSE s

instruction_5xy0(s, x, y) ==
    IF s.v[x] = s.v[y] THEN [s EXCEPT !.pc = s.pc + 2] ELSE s

instruction_6xnn(s, x, nn) == [s EXCEPT !.v[x] = nn % 256]

\* v[x] += nn as u8: the plain u8 addition panics on overflow when the build
\* checks overflow and wraps otherwise.
instruction_7xnn(s, x, nn, oc) ==
    LET sum == s.v[x] + (nn % 256)
    IN  IF sum > U8_MAX /\ oc
        THEN Panic(s, "ArithmeticOverflow")
        ELSE [s EXCEPT !.v[x] = sum % 256]

instruction_8xy0(s, x, y) == [s EXCEPT !.v[x] = s.v[y]]

instruction_8xy1(s, x, y) == [s EXCEPT !.v[x] = BitOr(s.v[x], s.v[y])]

instruction_8xy2(s, x, y) == [s EXCEPT !.v[x] = BitAnd(s.v[x], s.v[y])]

instruction_8xy3(s, x, y) == [s EXCEPT !.v[x] = BitXor(s.v[x], s.v[y])]

\* 8xy4 that adds first and computes the carry from the sum
instruction_8xy4_CarryAfterSum(s, x, y) ==
    LET s1 == [s EXCEPT !.v[x] = (s.v[x] + s.v[y]) % 256]
    IN  [s1 EXCEPT !.v[15] = IF s1.v[x] + s1.v[y] > U8_MAX THEN 1 ELSE 0]

instruction_8xy4(s, x, y) ==
    LET s1 == [s EXCEPT !.v[15] = IF s.v[x] + s.v[y] > U8_MAX THEN 1 ELSE 0]
    IN  [s1 EXCEPT !.v[x] = (s1.v[x] + s1.v[y]) % 256]

\* 8xy5 whose flag is "no borrow" (vx >= vy)
instruction_8xy5_NoBorrowOnEqual(s, x, y) ==
    LET s1 == [s EXCEPT !.v[15] = IF s.v[x] >= s.v[y] THEN 1 ELSE 0]
    IN  [s1 EXCEPT !.v[x] = (s1.v[x] - s1.v[y]) % 256]

instruction_8xy5(s, x, y) ==
    LET s1 == [s EXCEPT !.v[15] = IF s.v[x] > s.v[y] THEN 1 ELSE 0]
    IN  [s1 EXCEPT !.v[x] = (s1.v[x] - s1.v[y]) % 256]

instruction_8xy6(s, x) ==
    LET s1 == [s EXCEPT !.v[15] = s.v[x] % 2]
    IN  [s1 EXCEPT !.v[x] = Shr(s1.v[x], 1)]

instruction_8xy7(s, x, y) ==
    LET s1 == [s EXCEPT !.v[15] = IF s.v[y] > s.v[x] THEN 1 ELSE 0]
    IN  [s1 EXCEPT !.v[x] = (s1.v[y] - s1.v[x]) % 256]

\* 8xyE whose flag is the low bit
instruction_8xye_FlagIsLowBit(s, x) ==
    LET s1 == [s EXCEPT !.v[15] = s.v[x] % 2]
    IN  [s1 EXCEPT !.v[x] = Shl(s1.v[x], 1, 8)]

instruction_8xye(s, x) ==
    LET s1 == [s EXCEPT !.v[15] = Shr(s.v[x], 7) % 2]
    IN  [s1 EXCEPT !.v[x] = Shl(s1.v[x], 1, 8)]

instruction_9xy0(s, x, y) ==
    IF s.v[x] # s.v[y] THEN [s EXCEPT !.pc = s.pc + 2] ELSE s

instruction_annn(s, nnn) == [s EXCEPT !.i = nnn]

instruction_bnnn(s, nnn) == [s EXCEPT !.pc = nnn + s.v[0]]

\* Cxnn that stores the random byte as it comes
instruction_cxnn_Unmasked(s, x, nn, random_byte) ==
    [s EXCEPT !.v[x] = random_byte]

\* random_byte is the value rand::thread_rng().gen::<u8>() returned
instruction_cxnn(s, x, nn, random_byte) ==
    [s EXCEPT !.v[x] = BitAnd(nn % 256, random_byte)]

\* The inner loop with the sprite clipped at the right edge instead of wrapped
RECURSIVE dxyn_bits_Clips(_, _, _, _, _)
dxyn_bits_Clips(s, x, y_coord, pixels, bit) ==
    IF bit = 8 THEN s
    ELSE LET x_coord       == (s.v[x] % DISPLAY_WIDTH) + bit
             current_pixel == Shr(pixels, 7 - bit) % 2
             index         == (DISPLAY_WIDTH * y_coord) + x_coord
             s1 == IF current_pixel = 1 /\ x_coord < DISPLAY_WIDTH
                   THEN LET s0 == IF s.display[index] = TRUE
                                  THEN [s EXCEPT !.v[15] = 1]
                                  ELSE s
                        IN  [s0 EXCEPT !.display[index] = ~s0.display[index]]
                   ELSE s
         IN  dxyn_bits_Clips(s1, x, y_coord, pixels, bit + 1)

\* The inner loop that lights the cells of the sprite instead of flipping them
RECURSIVE dxyn_bits_Lights(_, _, _, _, _)
dxyn_bits_Lights(s, x, y_coord, pixels, bit) ==
    IF bit = 8 THEN s
    ELSE LET x_coord       == (s.v[x] + bit) % DISPLAY_WIDTH
             current_pixel == Shr(pixels, 7 - bit) % 2
             index         == (DISPLAY_WIDTH * y_coord) + x_coord
             s1 == IF current_pixel = 1
                   THEN LET s0 == IF s.display[index] = TRUE
                                  THEN [s EXCEPT !.v[15] = 1]
                                  ELSE s
                        IN  [s0 EXCEPT !.display[index] = TRUE]
                   ELSE s
         IN  dxyn_bits_Lights(s1, x, y_coord, pixels, bit + 1)

\* The inner loop of instruction_dxyn (for bit in 0..8), from `bit` on.
RECURSIVE dxyn_bits(_, _, _, _, _)
dxyn_bits(s, x, y_coord, pixels, bit) ==
    IF bit = 8 THEN s
    ELSE LET x_coord       == (s.v[x] + bit) % DISPLAY_WIDTH
             current_pixel == Shr(pixels, 7 - bit) % 2
             index         == (DISPLAY_WIDTH * y_coord) + x_coord
             s1 == IF current_pixel = 1
                   THEN LET s0 == IF s.display[index] = TRUE
                                  THEN [s EXCEPT !.v[15] = 1]
                                  ELSE s
                        IN  [s0 EXCEPT !.display[index] = ~s0.display[index]]
                   ELSE s
         IN  dxyn_bits(s1, x, y_coord, pixels, bit + 1)

\* The outer loop of instruction_dxyn (for byte in 0..height), from `byte` on.
RECURSIVE dxyn_rows(_, _, _, _, _)
dxyn_rows(s, x, y, height, byte) ==
    IF byte = height THEN s
    ELSE LET y_coord == (s.v[y] + byte) % DISPLAY_HEIGHT
         IN  IF s.i + byte >= MEMORY_SIZE
             THEN Panic(s, "IndexOutOfBounds")
             ELSE dxyn_rows(dxyn_bits(s, x, y_coord, s.memory[s.i + byte], 0),
                            x, y, height, byte + 1)

\* instruction_dxyn without the initial VF = 0
instruction_dxyn_KeepsVF(s, x, y, n) == dxyn_rows(s, x, y, n, 0)

\* instruction_dxyn that leaves I past the sprite
instruction_dxyn_AdvancesIndex(s, x, y, n) ==
    LET s1 == dxyn_rows([s EXCEPT !.v[15] = 0], x, y, n, 0)
    IN  IF Panicked(s1) THEN s1 ELSE [s1 EXCEPT !.i = s1.i + n]

instruction_dxyn(s, x, y, n) ==
    LET height == n
    IN  dxyn_rows([s EXCEPT !.v[15] = 0], x, y, height, 0)

instruction_ex9e(s, x) ==
    IF s.v[x] >= 16 THEN Panic(s, "IndexOutOfBounds")
    ELSE IF s.keypad[s.v[x]] THEN [s EXCEPT !.pc = s.pc + 2] ELSE s

\* ExA1 with the test of Ex9E
instruction_exa1_SkipsIfPressed(s, x) ==
    IF ~(s.v[x] < 16) THEN Panic(s, "IndexOutOfBounds")
    ELSE IF s.keypad[s.v[x]] THEN [s EXCEPT !.pc = s.pc + 2] ELSE s

instruction_exa1(s, x) ==
    IF s.v[x] >= 16 THEN Panic(s, "IndexOutOfBounds")
    ELSE IF ~s.keypad[s.v[x]] THEN [s EXCEPT !.pc = s.pc + 2] ELSE s

\* The Fx-- instructions have empty bodies in src/src/cpu.rs.
instruction_fx07(s, x) == s

instruction_fx0a(s, x) == s

instruction_fx15(s, x) == s

instruction_fx18(s, x) == s

instruction_fx1e(s, x) == s

instruction_fx29(s, x) == s

instruction_fx33(s, x) == s

instruction_fx55(s, x) == s

instruction_fx65(s, x) == s

-----------------------------------------------------------------------------
(* Cpu::decode *)

\* Dispatch with two arms that test too few nibbles (0_E0 and 5xy_)
Dispatch_LooseArms(op1, op2, op3, op4) ==
    CASE op1 = 0 /\ op3 = 14 /\ op4 = 0  -> "00E0"
      [] op1 = 0 /\ op2 = 0 /\ op3 = 14 /\ op4 = 14 -> "00EE"
      [] op1 = 1  -> "1NNN"
      [] op1 = 2  -> "2NNN"
      [] op1 = 3  -> "3XNN"
      [] op1 = 4  -> "4XNN"
      [] op1 = 5  -> "5XY0"
      [] op1 = 6  -> "6XNN"
      [] op1 = 7  -> "7XNN"
      [] op1 = 8 /\ op4 = 0  -> "8XY0"
      [] op1 = 8 /\ op4 = 1  -> "8XY1"
      [] op1 = 8 /\ op4 = 2  -> "8XY2"
      [] op1 = 8 /\ op4 = 3  -> "8XY3"
      [] op1 = 8 /\ op4 = 4  -> "8XY4"
      [] op1 = 8 /\ op4 = 5  -> "8XY5"
      [] op1 = 8 /\ op4 = 6  -> "8XY6"
      [] op1 = 8 /\ op4 = 7  -> "8XY7"
      [] op1 = 8 /\ op4 = 14 -> "8XYE"
      [] op1 = 9 /\ op4 = 0  -> "9XY0"
      [] op1 = 10 -> "ANNN"
      [] op1 = 11 -> "BNNN"
      [] op1 = 12 -> "CXNN"
      [] op1 = 13 -> "DXYN"
      [] op1 = 14 /\ op3 = 9  /\ op4 = 14 -> "EX9E"
      [] op1 = 14 /\ op3 = 10 /\ op4 = 1  -> "EXA1"
      [] op1 = 15 /\ op3 = 0 /\ op4 = 7   -> "FX07"
      [] op1 = 15 /\ op3 = 0 /\ op4 = 10  -> "FX0A"
      [] op1 = 15 /\ op3 = 1 /\ op4 = 5   -> "FX15"
      [] op1 = 15 /\ op3 = 1 /\ op4 = 8   -> "FX18"
      [] op1 = 15 /\ op3 = 1 /\ op4 = 14  -> "FX1E"
      [] op1 = 15 /\ op3 = 2 /\ op4 = 9   -> "FX29"
      [] op1 = 15 /\ op3 = 3 /\ op4 = 3   -> "FX33"
      [] op1 = 15 /\ op3 = 5 /\ op4 = 5   -> "FX55"
      [] op1 = 15 /\ op3 = 6 /\ op4 = 5   -> "FX65"
      [] OTHER -> "unknown"

\* The match of decode on the four nibbles: the instruction it dispatches to,
\* "unknown" for the arm that panics.
Dispatch(op1, op2, op3, op4) ==
    CASE op1 = 0 /\ op2 = 0 /\ op3 = 14 /\ op4 = 0  -> "00E0"
      [] op1 = 0 /\ op2 = 0 /\ op3 = 14 /\ op4 = 14 -> "00EE"
      [] op1 = 1  -> "1NNN"
      [] op1 = 2  -> "2NNN"
      [] op1 = 3  -> "3XNN"
      [] op1 = 4  -> "4XNN"
      [] op1 = 5 /\ op4 = 0  -> "5XY0"
      [] op1 = 6  -> "6XNN"
      [] op1 = 7  -> "7XNN"
      [] op1 = 8 /\ op4 = 0  -> "8XY0"
      [] op1 = 8 /\ op4 = 1  -> "8XY1"
      [] op1 = 8 /\ op4 = 2  -> "8XY2"
      [] op1 = 8 /\ op4 = 3  -> "8XY3"
      [] op1 = 8 /\ op4 = 4  -> "8XY4"
      [] op1 = 8 /\ op4 = 5  -> "8XY5"
      [] op1 = 8 /\ op4 = 6  -> "8XY6"
      [] op1 = 8 /\ op4 = 7  -> "8XY7"
      [] op1 = 8 /\ op4 = 14 -> "8XYE"
      [] op1 = 9 /\ op4 = 0  -> "9XY0"
      [] op1 = 10 -> "ANNN"
      [] op1 = 11 -> "BNNN"
      [] op1 = 12 -> "CXNN"
      [] op1 = 13 -> "DXYN"
      [] op1 = 14 /\ op3 = 9  /\ op4 = 14 -> "EX9E"
      [] op1 = 14 /\ op3 = 10 /\ op4 = 1  -> "EXA1"
      [] op1 = 15 /\ op3 = 0 /\ op4 = 7   -> "FX07"
      [] op1 = 15 /\ op3 = 0 /\ op4 = 10  -> "FX0A"
      [] op1 = 15 /\ op3 = 1 /\ op4 = 5   -> "FX15"
      [] op1 = 15 /\ op3 = 1 /\ op4 = 8   -> "FX18"
      [] op1 = 15 /\ op3 = 1 /\ op4 = 14  -> "FX1E"
      [] op1 = 15 /\ op3 = 2 /\ op4 = 9   -> "FX29"
      [] op1 = 15 /\ op3 = 3 /\ op4 = 3   -> "FX33"
      [] op1 = 15 /\ op3 = 5 /\ op4 = 5   -> "FX55"
      [] op1 = 15 /\ op3 = 6 /\ op4 = 5   -> "FX65"
      [] OTHER -> "unknown"

\* The instruction decode(opcode) dispatches to
InstrOf(opcode) ==
    Dispatch(Shr(BitAnd(opcode, 61440), 12), Shr(BitAnd(opcode, 3840), 8),
             Shr(BitAnd(opcode, 240), 4), BitAnd(opcode, 15))

decode(s, opcode, random_byte, oc) ==
    LET n     == BitAnd(opcode, 15)
        nn    == BitAnd(opcode, 255)
        nnn   == BitAnd(opcode, 4095)
        x     == Shr(BitAnd(opcode, 3840), 8)
        y     == Shr(BitAnd(opcode, 240), 4)
        instr == InstrOf(opcode)
    IN  CASE instr = "00E0" -> instruction_00e0(s)
          [] instr = "00EE" -> instruction_00ee(s, oc)
          [] instr = "1NNN" -> instruction_1nnn(s, nnn)
          [] instr = "2NNN" -> instruction_2nnn(s, nnn)
          [] instr = "3XNN" -> instruction_3xnn(s, x, nn)
          [] instr = "4XNN" -> instruction_4xnn(s, x, nn)
          [] instr = "5XY0" -> instruction_5xy0(s, x, y)
          [] instr = "6XNN" -> instruction_6xnn(s, x, nn)
          [] instr = "7XNN" -> instruction_7xnn(s, x, nn, oc)
          [] instr = "8XY0" -> instruction_8xy0(s, x, y)
          [] instr = "8XY1" -> instruction_8xy1(s, x, y)
          [] instr = "8XY2" -> instruction_8xy2(s, x, y)
          [] instr = "8XY3" -> instruction_8xy3(s, x, y)
          [] instr = "8XY4" -> instruction_8xy4(s, x, y)
          [] instr = "8XY5" -> instruction_8xy5(s, x, y)
          [] instr = "8XY6" -> instruction_8xy6(s, x)
          [] instr = "8XY7" -> instruction_8xy7(s, x, y)
          [] instr = "8XYE" -> instruction_8xye(s, x)
          [] instr = "9XY0" -> instruction_9xy0(s, x, y)
          [] instr = "ANNN" -> instruction_annn(s, nnn)
          [] instr = "BNNN" -> instruction_bnnn(s, nnn)
          [] instr = "CXNN" -> instruction_cxnn(s, x, nn, random_byte)
          [] instr = "DXYN" -> instruction_dxyn(s, x, y, n)
          [] instr = "EX9E" -> instruction_ex9e(s, x)
          [] instr = "EXA1" -> instruction_exa1(s, x)
          [] instr = "FX07" -> instruction_fx07(s, x)
          [] instr = "FX0A" -> instruction_fx0a(s, x)
          [] instr = "FX15" -> instruction_fx15(s, x)
          [] instr = "FX18" -> instruction_fx18(s, x)
          [] instr = "FX1E" -> instruction_fx1e(s, x)
          [] instr = "FX29" -> instruction_fx29(s, x)
          [] instr = "FX33" -> instruction_fx33(s, x)
          [] instr = "FX55" -> instruction_fx55(s, x)
          [] instr = "FX65" -> instruction_fx65(s, x)
          [] OTHER          -> Panic(s, "UnknownOpcode")

-----------------------------------------------------------------------------
(* Cpu::update_timers and Cpu::run *)

\* update_timers that stops the sound timer while the delay timer is 0
update_timers_DelayGates(s) ==
    IF s.delay_timer > 0
    THEN [s EXCEPT !.delay_timer = s.delay_timer - 1,
                   !.sound_timer = IF s.sound_timer > 0 THEN s.sound_timer - 1 ELSE 0]
    ELSE s

\* update_timers that decrements a timer only while it is above 1
update_timers_StopsAtOne(s) ==
    LET s1 == IF s.delay_timer > 1 THEN [s EXCEPT !.delay_timer = s.delay_timer - 1] ELSE s
    IN  IF s1.sound_timer > 1 THEN [s1 EXCEPT !.sound_timer = s1.sound_timer - 1] ELSE s1

update_timers(s) ==
    LET s1 == IF s.delay_timer > 0 THEN [s EXCEPT !.delay_timer = s.delay_timer - 1] ELSE s
    IN  IF s1.sound_timer > 0 THEN [s1 EXCEPT !.sound_timer = s1.sound_timer - 1] ELSE s1

\* The first half of run: the instruction at pc fetched, pc advanced, the
\* instruction executed (s is a state whose pc is in range)
execute(s, random_byte, oc) ==
    decode([s EXCEPT !.pc = s.pc + 2], fetch(s), random_byte, oc)

\* run that ticks once for every whole period elapsed
run_CatchesUp(s, dt, random_byte, oc) ==
    IF ~FetchInRange(s) THEN Panic(s, "IndexOutOfBounds")
    ELSE LET opcode == fetch(s)
             s1     == [s EXCEPT !.pc = s.pc + 2]
             s2     == decode(s1, opcode, random_byte, oc)
             s3     == [s2 EXCEPT !.tick_period = s2.tick_period + dt]
         IN  IF Panicked(s2) THEN s2
             ELSE IF s3.tick_period >= 2 * TIMER_RATE
                  THEN [update_timers(update_timers(s3)) EXCEPT !.tick_period = 0]
                  ELSE IF s3.tick_period >= TIMER_RATE
                       THEN [update_timers(s3) EXCEPT !.tick_period = 0]
                       ELSE s3

\* run that advances the program counter by one byte
run_AdvancesOneByte(s, dt, random_byte, oc) ==
    IF ~FetchInRange(s) THEN Panic(s, "IndexOutOfBounds")
    ELSE LET opcode == fetch(s)
             s1     == [s EXCEPT !.pc = s.pc + 1]
             s2     == decode(s1, opcode, random_byte, oc)
             s3     == [s2 EXCEPT !.tick_period = s2.tick_period + dt]
         IN  IF Panicked(s2) THEN s2
             ELSE IF s3.tick_period >= TIMER_RATE
                  THEN [update_timers(s3) EXCEPT !.tick_period = 0]
                  ELSE s3

\* `dt`: the microseconds that passed between the program's previous reading
\* of the clock and the tick_period.elapsed() of this step
run(s, dt, random_byte, oc) ==
    IF ~FetchInRange(s) THEN Panic(s, "IndexOutOfBounds")
    ELSE LET opcode == fetch(s)
             s1     == [s EXCEPT !.pc = s.pc + 2]
             s2     == decode(s1, opcode, random_byte, oc)
             s3     == [s2 EXCEPT !.tick_period = s2.tick_period + dt]
         IN  IF Panicked(s2) THEN s2
             ELSE IF s3.tick_period >= TIMER_RATE
                  THEN [update_timers(s3) EXCEPT !.tick_period = 0]
                  ELSE s3

-----------------------------------------------------------------------------
(* The flags behind Chip8::get_beep_state and Chip8::get_display_state.     *)
(* chip8.rs reads them through the Cpu, and cpu.rs neither holds nor sets    *)
(* them: they are modelled from the specification of the timer tick, which  *)
(* marks the display-updated flag and computes should-beep as "sound_timer  *)
(* was nonzero this tick"; the display flag is that of the latest step.      *)

FlagsNew == [beep |-> FALSE, display_update |-> FALSE]

\* the flags after a step: `ticked` tells whether the step ticked the timers,
\* sound_timer is the sound timer the tick found
tick_flags_BeepAfterDecrement(f, ticked, sound_timer) ==
    IF ticked
    THEN [beep |-> sound_timer > 1, display_update |-> TRUE]
    ELSE [f EXCEPT !.display_update = FALSE]

tick_flags(f, ticked, sound_timer) ==
    IF ticked
    THEN [beep |-> sound_timer > 0, display_update |-> TRUE]
    ELSE [f EXCEPT !.display_update = FALSE]

get_beep_state(f) == f.beep

get_display_state(f) == f.display_update

-----------------------------------------------------------------------------
(* Chip8 (src/src/chip8.rs): the interface the host drives *)

\* Chip8::load_rom hands the ROM to the Cpu and returns its result
load_rom(s, rom_data) == load_rom_in_memory(s, rom_data)

\* A set_key that also releases every other key
set_key_ClearsOthers(s, keypad_idx, pressed) ==
    IF keypad_idx >= 16 THEN Panic(s, "IndexOutOfBounds")
    ELSE [s EXCEPT !.keypad = [k \in 0 .. 15 |-> k = keypad_idx /\ pressed]]

\* Cpu::set_key, which Chip8::press_key and Chip8::release_key call
set_key(s, keypad_idx, pressed) ==
    IF keypad_idx >= 16 THEN Panic(s, "IndexOutOfBounds")
    ELSE [s EXCEPT !.keypad[keypad_idx] = pressed]

press_key(s, keypad_idx) == set_key(s, keypad_idx, TRUE)

release_key(s, keypad_idx) == set_key(s, keypad_idx, FALSE)

-----------------------------------------------------------------------------
(* Inputs: the ROM files given to the emulator, the keys the host reports,   *)
(* the bytes the random generator returns.                                   *)

\* The bytes of a program given as a sequence of 16-bit words, big-endian
OpBytes(ops) ==
    [k \in 1 .. 2 * Len(ops) |->
        IF k % 2 = 1 THEN ops[(k + 1) \div 2] \div 256 ELSE ops[k \div 2] % 256]

\* draws the glyph "0" across the right and bottom edges, draws it again, clears
RomDrawWrap == OpBytes(<< \h603E, \h611E, \hA050, \hD015, \hD015, \h00E0, \hD015 >>)

\* draws two overlapping glyphs at a random place, with VF preset, then a
\* sprite of height 0
RomDrawRandom ==
    OpBytes(<< \hC041, \hC121, \hA055, \hD015, \h6F07, \hA05A, \hD013, \hD010 >>)

\* draws a sprite kept in the ROM itself (at 0x20A: 3C C3 FF) and an all-zero one
RomDrawData ==
    OpBytes(<< \hA20A, \h6038, \h6F01, \hD013, \h1210, \h3CC3, \hFF00, \h0000,
               \hD013, \hA300, \hD01F, \hD103 >>)

\* draws with VF as the x and as the y register
RomDrawVF == OpBytes(<< \hA050, \hDF05, \hDF05, \hD0F5, \hA09B, \hDFF5 >>)

\* draws from the last byte of memory on
RomDrawEnd == OpBytes(<< \hAFFF, \hD001, \hD012 >>)

\* waits for a key, then loops
RomKeyWait == OpBytes(<< \hF30A, \h6307, \hE39E, \hE3A1, \h1200 >>)

\* a call and its return, then arithmetic, skips and a computed jump
RomControl ==
    OpBytes(<< \h2206, \h1208, \h0000, \h00EE, \h6AF0, \h7A0F, \h3AFF, \h0000,
               \h4AFF, \h7A01, \h5AB0, \h0000, \h9AB0, \h8AA4, \hB300 >>)

\* a return with no call pushed, then a call
RomReturn == OpBytes(<< \h00EE, \h2200 >>)

\* the largest ROM that fits (3584 bytes) and the smallest that does not
RomFull == [k \in 1 .. MEMORY_SIZE - START_ADDRESS |-> (k * 7) % 256]

RomTooLarge == [k \in 1 .. MEMORY_SIZE - START_ADDRESS + 1 |-> (k * 7) % 256]

RomEmpty == << >>

\* a call whose subroutine calls another, the two returns, a second call of
\* the inner subroutine, then a jump to itself
RomCalls == OpBytes(<< \h2206, \h220A, \h1204, \h220A, \h00EE, \h00EE >>)

\* sixteen calls, each of the instruction after it, with no return in between
RomDeep ==
    OpBytes(<< \h2202, \h2204, \h2206, \h2208, \h220A, \h220C, \h220E, \h2210,
               \h2212, \h2214, \h2216, \h2218, \h221A, \h221C, \h221E, \h2220,
               \h00EE >>)

\* fifteen nested calls, each subroutine calling the next and then returning,
\* and the fifteen returns; the program ends in a jump to itself
RomUnwind ==
    OpBytes(<< \h2204, \h1202, \h2208, \h00EE, \h220C, \h00EE, \h2210, \h00EE,
               \h2214, \h00EE, \h2218, \h00EE, \h221C, \h00EE, \h2220, \h00EE,
               \h2224, \h00EE, \h2228, \h00EE, \h222C, \h00EE, \h2230, \h00EE,
               \h2234, \h00EE, \h2238, \h00EE, \h223C, \h00EE, \h00EE >>)

\* sets both timers from V0, reads the delay timer back, then loops on the read
RomTimers == OpBytes(<< \h6003, \hF015, \hF018, \hF107, \h1206 >>)

\* V0 := 123, V1 := 5; the decimal digits of V0 and then V0..V1 stored at
\* 0x300; V0..V1 loaded from the font; the address of the glyph of V2 = 2
RomMemoryOps ==
    OpBytes(<< \h607B, \h6105, \hA300, \hF033, \hF155, \hA050, \hF165, \h6202,
               \hF229, \h1212 >>)

Roms == << RomDrawWrap, RomDrawRandom, RomDrawData, RomDrawVF, RomDrawEnd,
           RomKeyWait, RomControl, RomReturn, RomFull, RomTooLarge, RomEmpty,
           RomCalls, RomDeep, RomUnwind, RomTimers, RomMemoryOps >>

KeyInputs == {7, 15}

RandomBytes == {0, 33, 65, 255}

\* rand::thread_rng().gen::<u8>() is called by Cxnn alone: the bytes the
\* generator may return during the step taken from s (0 when it is not called)
RandomDraws(s) ==
    IF FetchInRange(s) /\ InstrOf(fetch(s)) = "CXNN" THEN RandomBytes ELSE {0}

\* The time one iteration of the emulation cycle may take, in microseconds:
\* just under one timer period (two iterations make a period) or one period
CycleTimes == {TIMER_RATE - 1, TIMER_RATE}

\* The same with the extremes: no time at all, two periods
Elapses == CycleTimes \cup {0, 2 * TIMER_RATE}

\* The calls not yet returned from after the step run() takes from s with the
\* log at `log`: a call that returns logs the address it saved and the sp it
\* found, a return that returns drops the newest entry
CallLogAfter(s, after, log) ==
    IF Panicked(after) \/ ~FetchInRange(s) THEN log
    ELSE IF InstrOf(fetch(s)) = "2NNN"
         THEN Append(log, [ret |-> s.pc + 2, sp |-> s.sp])
         ELSE IF InstrOf(fetch(s)) = "00EE" /\ Len(log) > 0
              THEN SubSeq(log, 1, Len(log) - 1)
              ELSE log

-----------------------------------------------------------------------------
(* The state machine *)

Init ==
    /\ cpu = CpuNew
    /\ overflow_checks \in BOOLEAN
    /\ lastAct = "new"
    /\ lastOpcode = -1
    /\ lastInstr = ""
    /\ lastRnd = 0
    /\ lastTick = FALSE
    /\ lastDt = 0
    /\ callLog = << >>
    /\ flags = FlagsNew
    /\ lastRom = 0
    /\ loadResult = "none"
    /\ lastKey = -1
    /\ lastDisplay = cpu.display

\* main (src/src/main.rs): the ROM is loaded once, before the emulation cycle
Load(r) ==
    /\ ~Panicked(cpu)
    /\ lastRom = 0
    /\ cpu' = load_rom(cpu, Roms[r])
    /\ lastAct' = "load"
    /\ lastRom' = r
    /\ loadResult' = IF Panicked(cpu') THEN "none" ELSE "Ok"
    /\ lastOpcode' = -1
    /\ lastInstr' = ""
    /\ lastRnd' = 0
    /\ lastTick' = FALSE
    /\ lastDt' = 0
    /\ lastKey' = -1
    /\ lastDisplay' = cpu.display
    /\ UNCHANGED <<overflow_checks, callLog, flags>>

\* one iteration of the emulation cycle: Chip8::run, that is Cpu::run
Run(dt, random_byte) ==
    /\ ~Panicked(cpu)
    /\ lastRom # 0
    /\ cpu' = run(cpu, dt, random_byte, overflow_checks)
    /\ lastAct' = "run"
    /\ lastOpcode' = IF FetchInRange(cpu) THEN fetch(cpu) ELSE -1
    /\ lastInstr' = IF FetchInRange(cpu) THEN InstrOf(fetch(cpu)) ELSE ""
    /\ lastRnd' = random_byte
    /\ lastTick' = (cpu.tick_period + dt >= TIMER_RATE /\ ~Panicked(cpu'))
    /\ lastDt' = dt
    /\ callLog' = CallLogAfter(cpu, cpu', callLog)
    /\ flags' = IF Panicked(cpu') THEN flags
                ELSE tick_flags(flags, cpu.tick_period + dt >= TIMER_RATE,
                                execute(cpu, random_byte, overflow_checks).sound_timer)
    /\ lastKey' = -1
    /\ lastDisplay' = cpu.display
    /\ UNCHANGED <<overflow_checks, lastRom, loadResult>>

PressKey(k) ==
    /\ ~Panicked(cpu)
    /\ cpu' = press_key(cpu, k)
    /\ lastAct' = "press_key"
    /\ lastKey' = k
    /\ lastDisplay' = cpu.display
    /\ lastOpcode' = -1
    /\ lastInstr' = ""
    /\ lastRnd' = 0
    /\ lastTick' = FALSE
    /\ lastDt' = 0
    /\ UNCHANGED <<overflow_checks, callLog, flags, lastRom, loadResult>>

ReleaseKey(k) ==
    /\ ~Panicked(cpu)
    /\ cpu' = release_key(cpu, k)
    /\ lastAct' = "release_key"
    /\ lastKey' = k
    /\ lastDisplay' = cpu.display
    /\ lastOpcode' = -1
    /\ lastInstr' = ""
    /\ lastRnd' = 0
    /\ lastTick' = FALSE
    /\ lastDt' = 0
    /\ UNCHANGED <<overflow_checks, callLog, flags, lastRom, loadResult>>

Next ==
    \/ \E r \in 1 .. Len(Roms) : Load(r)
    \/ \E dt \in CycleTimes, random_byte \in RandomDraws(cpu) : Run(dt, random_byte)
    \/ \E k \in KeyInputs : PressKey(k)
    \/ \E k \in KeyInputs : ReleaseKey(k)

Spec == Init /\ [][Next]_vars

-----------------------------------------------------------------------------
(* Cpu::decode called on its own, as the unit tests of src/src/cpu_test.rs   *)
(* call it: on a freshly constructed Cpu, with any 16-bit opcode.            *)

OpcodeInputs == 0 .. 65535

DecodeCall(opcode, random_byte) ==
    /\ cpu' = decode(cpu, opcode, random_byte, overflow_checks)
    /\ lastAct' = "decode"
    /\ lastOpcode' = opcode
    /\ lastInstr' = InstrOf(opcode)
    /\ lastRnd' = random_byte
    /\ lastDisplay' = cpu.display
    /\ UNCHANGED <<overflow_checks, lastTick, lastDt, callLog, flags, lastRom, loadResult,
                   lastKey>>

NextDecode ==
    /\ lastAct = "new"
    /\ \E opcode \in OpcodeInputs :
          \E random_byte \in (IF InstrOf(opcode) = "CXNN" THEN RandomBytes ELSE {0}) :
              DecodeCall(opcode, random_byte)

SpecDecode == Init /\ [][NextDecode]_vars

-----------------------------------------------------------------------------
(* The arithmetic instructions, run from programs that set the operand      *)
(* registers with 6xnn and then execute one of them.                         *)

\* register values: both ends of the u8 range, the sign bit, mixed nibbles
ByteInputs == {0, 1, 15, 127, 128, 240, 255}

\* the (x, y) fields: distinct registers, y = x, VF as x, VF as y, VF as both
RegisterPairs == {<<1, 2>>, <<1, 1>>, <<15, 2>>, <<2, 15>>, <<15, 15>>}

\* the last nibble of 8xy4, 8xy5, 8xy6, 8xy7, 8xyE
AluNibbles == {4, 5, 6, 7, 14}

\* VF := 7; Vx := vx; Vy := vy; 8xy<n>
AluProgram(x, y, vx, vy, n) ==
    OpBytes(<< \h6F07, \h6000 + 256 * x + vx, \h6000 + 256 * y + vy,
               \h8000 + 256 * x + 16 * y + n >>)

\* VF := 7; Vx := vx; 7xnn
AddProgram(x, vx, nn) ==
    OpBytes(<< \h6F07, \h6000 + 256 * x + vx, \h7000 + 256 * x + nn >>)

AluRoms ==
    {AluProgram(r[1], r[2], vx, vy, n) :
        r \in RegisterPairs, vx \in ByteInputs, vy \in ByteInputs, n \in AluNibbles}
    \cup {AddProgram(x, vx, nn) : x \in {1, 15}, vx \in ByteInputs, nn \in ByteInputs}

\* main: the ROM file holds `rom_data`, a program that is not one of Roms
LoadProgram(rom_data) ==
    /\ ~Panicked(cpu)
    /\ lastRom = 0
    /\ cpu' = load_rom(cpu, rom_data)
    /\ lastAct' = "load"
    /\ lastRom' = Len(Roms) + 1
    /\ loadResult' = IF Panicked(cpu') THEN "none" ELSE "Ok"
    /\ lastOpcode' = -1
    /\ lastInstr' = ""
    /\ lastRnd' = 0
    /\ lastTick' = FALSE
    /\ lastDt' = 0
    /\ lastKey' = -1
    /\ lastDisplay' = cpu.display
    /\ UNCHANGED <<overflow_checks, callLog, flags>>

NextAlu ==
    \/ \E rom_data \in AluRoms : LoadProgram(rom_data)
    \/ \E dt \in {TIMER_RATE}, random_byte \in RandomDraws(cpu) : Run(dt, random_byte)

SpecAlu == Init /\ [][NextAlu]_vars

-----------------------------------------------------------------------------
(* The conditional skips, run from programs that set the operand registers  *)
(* and then execute one of them.                                             *)

\* the (x, y) fields: distinct registers, y = x, VF as x
SkipRegisters == {<<1, 2>>, <<1, 1>>, <<15, 2>>}

\* Vx := vx; Vy := b; then 3xnn or 4xnn with nn = b, or 5xy0 or 9xy0
SkipProgram(x, y, vx, b, top) ==
    OpBytes(<< \h6000 + 256 * x + vx, \h6000 + 256 * y + b,
               IF top \in {3, 4} THEN 4096 * top + 256 * x + b
                                 ELSE 4096 * top + 256 * x + 16 * y >>)

SkipRoms ==
    {SkipProgram(r[1], r[2], vx, b, top) :
        r \in SkipRegisters, vx \in ByteInputs, b \in ByteInputs, top \in {3, 4, 5, 9}}

NextSkip ==
    \/ \E rom_data \in SkipRoms : LoadProgram(rom_data)
    \/ \E dt \in CycleTimes, random_byte \in RandomDraws(cpu) : Run(dt, random_byte)

SpecSkip == Init /\ [][NextSkip]_vars

-----------------------------------------------------------------------------
(* The key skips, run from programs that set V3 and execute Ex9E or ExA1,   *)
(* while the host presses and releases keys.                                 *)

\* the keys the host presses and releases: the first, one inside, the last
KeypadInputs == {0, 7, 15}

\* V3 := k; then Ex9E (low = 0x9E) or ExA1 (low = 0xA1)
KeyProgram(k, low) == OpBytes(<< \h6300 + k, \hE300 + low >>)

\* every key index, and 16, which is no key
KeyRoms == {KeyProgram(k, low) : k \in 0 .. 16, low \in {\h9E, \hA1}}

NextKeys ==
    \/ \E rom_data \in KeyRoms : LoadProgram(rom_data)
    \/ \E dt \in {TIMER_RATE}, random_byte \in RandomDraws(cpu) : Run(dt, random_byte)
    \/ \E k \in KeypadInputs : PressKey(k)
    \/ \E k \in KeypadInputs : ReleaseKey(k)

SpecKeys == Init /\ [][NextKeys]_vars

-----------------------------------------------------------------------------
(* Cxnn with every byte the generator can return, run from programs that    *)
(* set V2 and then execute Cxnn.                                             *)

\* V2 := 7; then Cxnn
RandomProgram(x, nn) == OpBytes(<< \h6207, \hC000 + 256 * x + nn >>)

RandomRoms == {RandomProgram(x, nn) : x \in {1, 15}, nn \in ByteInputs}

\* gen::<u8>() returns any u8
AllRandomDraws(s) ==
    IF FetchInRange(s) /\ InstrOf(fetch(s)) = "CXNN" THEN 0 .. U8_MAX ELSE {0}

NextRandom ==
    \/ \E rom_data \in RandomRoms : LoadProgram(rom_data)
    \/ \E dt \in {TIMER_RATE}, random_byte \in AllRandomDraws(cpu) : Run(dt, random_byte)

SpecRandom == Init /\ [][NextRandom]_vars

-----------------------------------------------------------------------------
(* Jumps, calls and returns to arbitrary addresses: programs that set V0 and *)
(* then execute 1nnn, 2nnn or Bnnn with a target that may be odd or the last *)
(* byte of memory.                                                           *)

\* the addresses the programs jump to
JumpTargets == {\h204, \h206, \h208, \h209, \h20B, \h20D, \hFFE, \hFFF}

\* the values the programs give V0 (the offset of Bnnn)
JumpOffsets == {0, 1, 5}

\* the first nibble of 1nnn, 2nnn, Bnnn
JumpNibbles == {1, 2, 11}

\* 0x200: V0 := v0          0x202: the jump
\* 0x204: 1204 (spin)       0x206: 00E0         0x208: a byte 00
\* 0x209: 220D (call)       0x20B: 120B (spin)  0x20D: 00EE
JumpProgram(top, nnn, v0) ==
    OpBytes(<< \h6000 + v0, 4096 * top + nnn, \h1204, \h00E0 >>)
    \o << 0, \h22, \h0D, \h12, \h0B, \h00, \hEE >>

JumpRoms ==
    {JumpProgram(top, nnn, v0) :
        top \in JumpNibbles, nnn \in JumpTargets, v0 \in JumpOffsets}

NextJump ==
    \/ \E rom_data \in JumpRoms : LoadProgram(rom_data)
    \/ \E dt \in CycleTimes, random_byte \in RandomDraws(cpu) : Run(dt, random_byte)

SpecJump == Init /\ [][NextJump]_vars

-----------------------------------------------------------------------------
(* Drawing over a lit display: programs that draw the glyph "0" at           *)
(* (bb, bb), set the operand registers, draw the same sprite twice in a row  *)
(* and clear the display, while the host presses and releases a key.         *)

\* the register pairs (x, y) of the Dxyn
DrawRegisters == {<<0, 1>>, <<1, 1>>}

\* the values of v[x] and of v[y]: inside the display, wrapping, above 63
DrawColumns == {0, 60, 255}

DrawRows == {0, 30}

\* the addresses of the sprite: the glyph "0", zero bytes, the end of memory
SpriteAddresses == {\h050, \h300, \hFFE}

SpriteHeights == {0, 5, 15}

\* I := 0x050; V2 := bb; D225; Vx := vx; Vy := vy; I := addr; Dxyn; Dxyn; 00E0
DrawProgram(x, y, vx, vy, addr, n, bb) ==
    OpBytes(<< \hA050, \h6200 + bb, \hD225,
               \h6000 + 256 * x + vx, \h6000 + 256 * y + vy, \hA000 + addr,
               \hD000 + 256 * x + 16 * y + n, \hD000 + 256 * x + 16 * y + n,
               \h00E0 >>)

DrawRoms ==
    {DrawProgram(r[1], r[2], vx, vy, addr, n, 0) :
        r \in DrawRegisters, vx \in DrawColumns, vy \in DrawRows,
        addr \in SpriteAddresses, n \in SpriteHeights}

NextDraw ==
    \/ \E rom_data \in DrawRoms : LoadProgram(rom_data)
    \/ \E dt \in {TIMER_RATE}, random_byte \in RandomDraws(cpu) : Run(dt, random_byte)
    \/ \E k \in {7} : PressKey(k)
    \/ \E k \in {7} : ReleaseKey(k)

SpecDraw == Init /\ [][NextDraw]_vars

-----------------------------------------------------------------------------
(* Register 0xF as a source operand: 8xy4, 8xy5 and 8xy7 with y = 0xF, and   *)
(* Dxyn with x = 0xF or y = 0xF drawn over the glyph at (0, 0).              *)

\* the register pairs (x, y) with 0xF as a source
OperandRegisters == {<<15, 1>>, <<0, 15>>}

\* the last nibble of 8xy4, 8xy5, 8xy7
OperandNibbles == {4, 5, 7}

OperandRoms ==
    {AluProgram(2, 15, vx, vy, n) :
        vx \in ByteInputs, vy \in ByteInputs, n \in OperandNibbles}
    \cup {DrawProgram(r[1], r[2], vx, vy, addr, 5, 0) :
            r \in OperandRegisters, vx \in DrawColumns, vy \in DrawRows,
            addr \in {\h050, \h300}}

NextOperand ==
    \/ \E rom_data \in OperandRoms : LoadProgram(rom_data)
    \/ \E dt \in {TIMER_RATE}, random_byte \in RandomDraws(cpu) : Run(dt, random_byte)

SpecOperand == Init /\ [][NextOperand]_vars

-----------------------------------------------------------------------------
(* The timers, from a machine whose timers hold a value, as the unit test of *)
(* update_timers sets them (cpu.delay_timer = 3; cpu.sound_timer = 2): no    *)
(* instruction of src/src/cpu.rs writes a timer. The machine holds RomTimers *)
(* and is either ticked directly or run.                                     *)

TimerInputs == {0, 1, 2, 3}

InitTimers ==
    /\ \E d \in TimerInputs, s \in TimerInputs :
          cpu = load_rom_in_memory([CpuNew EXCEPT !.delay_timer = d, !.sound_timer = s],
                                   RomTimers)
    /\ overflow_checks \in BOOLEAN
    /\ lastAct = "load"
    /\ lastOpcode = -1
    /\ lastInstr = ""
    /\ lastRnd = 0
    /\ lastTick = FALSE
    /\ lastDt = 0
    /\ callLog = << >>
    /\ flags = FlagsNew
    /\ lastRom = 15
    /\ loadResult = "Ok"
    /\ lastKey = -1
    /\ lastDisplay = cpu.display

UpdateTimers ==
    /\ ~Panicked(cpu)
    /\ cpu' = update_timers(cpu)
    /\ lastAct' = "update_timers"
    /\ lastOpcode' = -1
    /\ lastInstr' = ""
    /\ lastRnd' = 0
    /\ lastTick' = FALSE
    /\ lastDt' = 0
    /\ lastKey' = -1
    /\ lastDisplay' = cpu.display
    /\ UNCHANGED <<overflow_checks, callLog, flags, lastRom, loadResult>>

NextTimers ==
    \/ UpdateTimers
    \/ \E dt \in Elapses, random_byte \in RandomDraws(cpu) : Run(dt, random_byte)

SpecTimers == InitTimers /\ [][NextTimers]_vars

\* a step of the emulation loop during which a timer period has elapsed
TickingRun ==
    \E dt \in Elapses, random_byte \in RandomDraws(cpu) :
        Run(dt, random_byte) /\ lastTick'

\* the process of SpecTimers never stops: its program loops at 0x206
TimersLoopAlive == ~Panicked(cpu) /\ lastRom # 0

\* the emulation loop keeps calling run() and the wall clock keeps advancing:
\* a step that finds the period elapsed is not postponed for ever. This is
\* weak fairness of TickingRun, which is enabled in every state of SpecTimers
\* (TimersLoopAlive), stated without ENABLED.
SpecTimersFair == SpecTimers /\ []<><<TickingRun>>_vars

-----------------------------------------------------------------------------
(* Vocabulary of the properties: an opcode's fields read arithmetically, and *)
(* the transitions a property is about.                                      *)

TopNibble(op) == op \div 4096

FieldX(op) == (op \div 256) % 16

FieldY(op) == (op \div 16) % 16

FieldN(op) == op % 16

LowByte(op) == op % 256

\* the 16-bit word stored big-endian at the program counter of s
WordAtPc(s) == s.memory[s.pc] * 256 + s.memory[s.pc + 1]

\* this transition is a call of run() / of load_rom() that returned
RunStep == lastAct' = "run"

RunReturned == lastAct' = "run" /\ ~Panicked(cpu')

LoadReturned == lastAct' = "load" /\ ~Panicked(cpu')

AnyKeyPressed(s) == \E k \in 0 .. 15 : s.keypad[k]

-----------------------------------------------------------------------------
(* C1: immediately after Cpu::new() pc is 0x200, the registers, the index    *)
(* register, the stack, sp and both timers are 0, the 2048 display cells are *)
(* unlit, the 16 keys are released, memory[0x50 .. 0x50+80) is the 80-byte    *)
(* font table and every other memory byte is 0.                              *)
C1_InitialState ==
    lastAct = "new" =>
        /\ cpu.pc = 512
        /\ \A r \in 0 .. 15 : cpu.v[r] = 0 /\ cpu.stack[r] = 0 /\ cpu.keypad[r] = FALSE
        /\ cpu.i = 0 /\ cpu.sp = 0 /\ cpu.delay_timer = 0 /\ cpu.sound_timer = 0
        /\ DOMAIN cpu.display = 0 .. 2047
        /\ \A c \in 0 .. 2047 : cpu.display[c] = FALSE
        /\ DOMAIN cpu.memory = 0 .. 4095
        /\ Len(CHIP8_FONT) = 80
        /\ \A k \in 0 .. 79 : cpu.memory[80 + k] = CHIP8_FONT[k + 1]
        /\ \A a \in 0 .. 4095 : (a < 80 \/ a >= 160) => cpu.memory[a] = 0

C1_Witness ==
    lastAct = "new" /\ ~Panicked(cpu) /\ cpu.memory[80] = 240 /\ cpu.memory[159] = 128

(* C2: loading a ROM that fits writes rom[k] to memory[0x200 + k] for every  *)
(* k < len(rom) and leaves everything else unchanged: every other memory     *)
(* byte, pc, the registers, index, stack, sp, timers, display and keypad.    *)
C2_LoadFrame ==
    [][LoadReturned =>
        LET rom == Roms[lastRom']
        IN  /\ \A k \in 0 .. Len(rom) - 1 : cpu'.memory[512 + k] = rom[k + 1]
            /\ \A a \in 0 .. 4095 :
                  (a < 512 \/ a >= 512 + Len(rom)) => cpu'.memory[a] = cpu.memory[a]
            /\ cpu'.pc = cpu.pc /\ cpu'.v = cpu.v /\ cpu'.i = cpu.i
            /\ cpu'.stack = cpu.stack /\ cpu'.sp = cpu.sp
            /\ cpu'.delay_timer = cpu.delay_timer /\ cpu'.sound_timer = cpu.sound_timer
            /\ cpu'.display = cpu.display /\ cpu'.keypad = cpu.keypad]_vars

C2_Witness ==
    /\ lastAct = "load" /\ ~Panicked(cpu)
    /\ Len(Roms[lastRom]) > 0
    /\ cpu.memory[512] = Roms[lastRom][1] /\ cpu.memory[512] # 0
    /\ cpu.memory[80] = 240
    /\ cpu.keypad[7]

(* C3: load accepts a ROM if and only if its length is at most 3584 bytes;   *)
(* a ROM of exactly 3584 bytes is accepted, and every longer ROM is rejected *)
(* with a RomTooLarge load error returned to the caller as an error value.   *)
C3_LoadRejectsWithError ==
    lastAct = "load" =>
        /\ Len(Roms[lastRom]) <= 3584 => (loadResult = "Ok" /\ ~Panicked(cpu))
        /\ Len(Roms[lastRom]) > 3584 => (loadResult = "Err" /\ ~Panicked(cpu))

-----------------------------------------------------------------------------
\* The instruction table of the interpreter, keyed on the opcode as a number
TableInstr(op) ==
    LET t == TopNibble(op)
        b == LowByte(op)
        l == FieldN(op)
    IN  CASE op = 224 -> "00E0"
          [] op = 238 -> "00EE"
          [] t = 1  -> "1NNN"
          [] t = 2  -> "2NNN"
          [] t = 3  -> "3XNN"
          [] t = 4  -> "4XNN"
          [] t = 5 /\ l = 0 -> "5XY0"
          [] t = 6  -> "6XNN"
          [] t = 7  -> "7XNN"
          [] t = 8 /\ l \in 0 .. 7 ->
                << "8XY0", "8XY1", "8XY2", "8XY3", "8XY4", "8XY5", "8XY6", "8XY7" >>[l + 1]
          [] t = 8 /\ l = 14 -> "8XYE"
          [] t = 9 /\ l = 0  -> "9XY0"
          [] t = 10 -> "ANNN"
          [] t = 11 -> "BNNN"
          [] t = 12 -> "CXNN"
          [] t = 13 -> "DXYN"
          [] t = 14 /\ b = 158 -> "EX9E"
          [] t = 14 /\ b = 161 -> "EXA1"
          [] t = 15 /\ b = 7   -> "FX07"
          [] t = 15 /\ b = 10  -> "FX0A"
          [] t = 15 /\ b = 21  -> "FX15"
          [] t = 15 /\ b = 24  -> "FX18"
          [] t = 15 /\ b = 30  -> "FX1E"
          [] t = 15 /\ b = 41  -> "FX29"
          [] t = 15 /\ b = 51  -> "FX33"
          [] t = 15 /\ b = 85  -> "FX55"
          [] t = 15 /\ b = 101 -> "FX65"
          [] OTHER -> "none"

(* C4: decode fails with the unknown-opcode failure for exactly the opcodes  *)
(* that match no pattern of the instruction table; such an opcode is never   *)
(* executed as another instruction or as a no-op (decode does not return),   *)
(* and an opcode that matches a pattern is dispatched to that instruction.   *)
C4_DecodeDispatch ==
    lastAct = "decode" =>
        /\ (cpu.panic = "UnknownOpcode") <=> (TableInstr(lastOpcode) = "none")
        /\ TableInstr(lastOpcode) = "none" => lastInstr = "unknown"
        /\ TableInstr(lastOpcode) # "none" => lastInstr = TableInstr(lastOpcode)

C4_Witness ==
    /\ lastAct = "decode"
    /\ lastOpcode = 20753
    /\ cpu.panic = "UnknownOpcode"

-----------------------------------------------------------------------------
\* the run() taken from s fetches an opcode (the fetch is in range)
Fetches(s) == s.pc + 1 < 4096

\* the instruction at the program counter of s is a skip whose condition holds
SkipTaken(s) ==
    LET op == WordAtPc(s)
        t  == TopNibble(op)
        vx == s.v[FieldX(op)]
        vy == s.v[FieldY(op)]
    IN  \/ t = 3 /\ vx = LowByte(op)
        \/ t = 4 /\ vx # LowByte(op)
        \/ t = 5 /\ vx = vy
        \/ t = 9 /\ vx # vy
        \/ t = 14 /\ LowByte(op) = 158 /\ vx < 16 /\ s.keypad[vx]
        \/ t = 14 /\ LowByte(op) = 161 /\ vx < 16 /\ ~s.keypad[vx]

\* the instruction at the program counter of s is no jump, call, return,
\* taken skip or unsatisfied key-wait
Sequential(s) ==
    LET op == WordAtPc(s)
    IN  /\ TopNibble(op) \notin {1, 2, 11}
        /\ op # 238
        /\ ~SkipTaken(s)
        /\ ~(TableInstr(op) = "FX0A" /\ ~AnyKeyPressed(s))

(* C5: one step executes exactly one instruction, the opcode                 *)
(* memory[pc]*256 + memory[pc+1] read at the pc held when the step starts,   *)
(* and for every instruction that is no jump, call, return, taken skip or    *)
(* unsatisfied key-wait the step leaves pc exactly 2 greater than before.    *)
C5_StepFetchesAtPc ==
    [][(RunStep /\ Fetches(cpu)) =>
          /\ lastOpcode' = WordAtPc(cpu)
          /\ lastInstr' = IF TableInstr(WordAtPc(cpu)) = "none" THEN "unknown"
                          ELSE TableInstr(WordAtPc(cpu))
          /\ (RunReturned /\ Sequential(cpu)) => cpu'.pc = cpu.pc + 2]_vars

C5_Witness ==
    /\ lastAct = "run" /\ ~Panicked(cpu)
    /\ lastOpcode = 24638 /\ lastInstr = "6XNN"
    /\ cpu.pc = 514 /\ cpu.v[0] = 62

(* C6: while no key is pressed, every step that executes Fx0A leaves pc      *)
(* equal to its value before the step and leaves every register unchanged.   *)
C6_KeyWaitHoldsPc ==
    [][(RunStep /\ Fetches(cpu) /\ TableInstr(WordAtPc(cpu)) = "FX0A"
            /\ ~AnyKeyPressed(cpu)) =>
          /\ ~Panicked(cpu')
          /\ cpu'.pc = cpu.pc
          /\ cpu'.v = cpu.v]_vars

(* C7: a step that executes Fx0A while at least one key is pressed stores    *)
(* the index (0..15) of a pressed key in v[x] and leaves pc 2 past the Fx0A. *)
C7_KeyWaitStoresKey ==
    [][(RunStep /\ Fetches(cpu) /\ TableInstr(WordAtPc(cpu)) = "FX0A"
            /\ AnyKeyPressed(cpu)) =>
          /\ ~Panicked(cpu')
          /\ cpu'.v[FieldX(WordAtPc(cpu))] \in 0 .. 15
          /\ cpu.keypad[cpu'.v[FieldX(WordAtPc(cpu))]]
          /\ cpu'.pc = cpu.pc + 2]_vars

-----------------------------------------------------------------------------
\* this transition is a run() that executed a Dxyn and returned
DrawStep == RunReturned /\ Fetches(cpu) /\ TopNibble(WordAtPc(cpu)) = 13

\* bit b (most significant first) of the sprite row r of the Dxyn at the pc of s
SpriteBit(s, r, b) == (s.memory[s.i + r] \div Pow2(7 - b)) % 2

\* a sprite of n rows at s.i, drawn from column vx and row vy, has a set bit
\* that lands on (row, col)
SpriteCovers(s, vx, vy, n, row, col) ==
    \E r \in 0 .. n - 1 : \E b \in 0 .. 7 :
        /\ (vy + r) % 32 = row
        /\ (vx + b) % 64 = col
        /\ SpriteBit(s, r, b) = 1

(* C8: for x and y other than 0xF, Dxyn flips exactly the display cells at   *)
(* row (v[y] + r) mod 32, column (v[x] + b) mod 64 for which bit b (most     *)
(* significant first) of memory[index + r] is 1, r in 0..n-1, b in 0..7, and *)
(* leaves every other cell unchanged; a sprite that crosses the right or the *)
(* bottom edge continues on the opposite edge.                               *)
C8_DrawFlipsSpriteCells ==
    [][(DrawStep /\ FieldX(WordAtPc(cpu)) # 15 /\ FieldY(WordAtPc(cpu)) # 15) =>
          LET vx == cpu.v[FieldX(WordAtPc(cpu))]
              vy == cpu.v[FieldY(WordAtPc(cpu))]
              n  == FieldN(WordAtPc(cpu))
          IN  \A row \in 0 .. 31 : \A col \in 0 .. 63 :
                  cpu'.display[64 * row + col] =
                      (cpu.display[64 * row + col] # SpriteCovers(cpu, vx, vy, n, row, col))]_vars

C8_Witness ==
    /\ lastAct = "run" /\ ~Panicked(cpu) /\ lastInstr = "DXYN"
    /\ FieldX(lastOpcode) # 15 /\ FieldY(lastOpcode) # 15
    /\ cpu.v[FieldX(lastOpcode)] > 56
    /\ cpu.v[FieldY(lastOpcode)] + FieldN(lastOpcode) > 32
    /\ cpu.display[64 * 30 + 63] /\ cpu.display[64 * 30 + 0]
    /\ cpu.display[64 * 0 + 62] /\ cpu.display[64 * 0 + 1]

(* C9: after Dxyn, v[0xF] is 1 if at least one display cell that was lit     *)
(* before the draw was flipped to unlit by it, and 0 otherwise, whatever     *)
(* v[0xF] was before; a draw with n = 0 or with an all-zero sprite leaves    *)
(* v[0xF] = 0.                                                               *)
C9_DrawCollisionFlag ==
    [][DrawStep =>
          /\ cpu'.v[15] = IF \E c \in 0 .. 2047 : cpu.display[c] /\ ~cpu'.display[c]
                          THEN 1 ELSE 0
          /\ (\A r \in 0 .. FieldN(WordAtPc(cpu)) - 1 : cpu.memory[cpu.i + r] = 0)
                => cpu'.v[15] = 0]_vars

C9_Witness ==
    /\ lastAct = "run" /\ ~Panicked(cpu) /\ lastInstr = "DXYN"
    /\ FieldN(lastOpcode) = 3
    /\ cpu.v[15] = 1
    /\ \E c \in 0 .. 2047 : cpu.display[c]

(* C10: Dxyn changes only the display and v[0xF]: the index register, all of *)
(* memory, the other 15 registers, the stack, sp, both timers and the keypad *)
(* are the same after the instruction as before it.                          *)
C10_DrawFrame ==
    [][DrawStep =>
          /\ cpu'.i = cpu.i
          /\ cpu'.memory = cpu.memory
          /\ \A r \in 0 .. 14 : cpu'.v[r] = cpu.v[r]
          /\ cpu'.stack = cpu.stack /\ cpu'.sp = cpu.sp
          /\ cpu'.keypad = cpu.keypad
          /\ ~lastTick' => /\ cpu'.delay_timer = cpu.delay_timer
                           /\ cpu'.sound_timer = cpu.sound_timer]_vars

C10_Witness ==
    /\ lastAct = "run" /\ ~Panicked(cpu) /\ lastInstr = "DXYN"
    /\ cpu.i = 522 /\ cpu.v[0] = 56 /\ cpu.v[15] = 0 /\ cpu.keypad[15]
    /\ cpu.display[58]

-----------------------------------------------------------------------------
(* The arithmetic and shift instructions *)

\* a step that ran instruction `name` and returned
StepOf(name) == RunReturned /\ lastInstr' = name

\* the register fields of the instruction of the step
OpX == FieldX(lastOpcode')

OpY == FieldY(lastOpcode')

(* C11: for x and y other than 0xF (y = x included), 8xy4 sets v[x] to      *)
(* (vx + vy) mod 256 and v[0xF] to 1 if vx + vy > 255 and to 0 otherwise,    *)
(* vx and vy being the register values before the instruction.               *)
C11_AddWithCarry ==
    [][StepOf("8XY4") /\ OpX # 15 /\ OpY # 15 =>
          LET vx == cpu.v[OpX]
              vy == cpu.v[OpY]
          IN  /\ cpu'.v[OpX] = (vx + vy) % 256
              /\ cpu'.v[15] = IF vx + vy > 255 THEN 1 ELSE 0]_vars

\* the spec's example: 0xFF + 0x0F gives 0x0E with carry
C11_Witness ==
    /\ lastAct = "run" /\ ~Panicked(cpu) /\ lastInstr = "8XY4"
    /\ FieldX(lastOpcode) = 1 /\ FieldY(lastOpcode) = 2
    /\ cpu.v[1] = 14 /\ cpu.v[2] = 15 /\ cpu.v[15] = 1

FlagOf(name, s, x, y) ==
    CASE name = "8XY4" -> IF s.v[x] + s.v[y] > 255 THEN 1 ELSE 0
      [] name = "8XY5" -> IF s.v[x] > s.v[y] THEN 1 ELSE 0
      [] name = "8XY6" -> s.v[x] % 2
      [] name = "8XY7" -> IF s.v[y] > s.v[x] THEN 1 ELSE 0
      [] name = "8XYE" -> s.v[x] \div 128

(* C13: 8xy4, 8xy5, 8xy6, 8xy7 and 8xyE leave their carry, borrow or        *)
(* shifted-out bit in v[0xF] also when x = 0xF: after the instruction       *)
(* v[0xF] holds the flag, not the arithmetic or shift result.                *)
C13_FlagSurvivesDestinationVF ==
    [][\A name \in {"8XY4", "8XY5", "8XY6", "8XY7", "8XYE"} :
          StepOf(name) /\ OpX = 15 => cpu'.v[15] = FlagOf(name, cpu, OpX, OpY)]_vars

(* C14: 7xnn sets v[x] to (vx + nn) mod 256 for every vx and nn, the pairs   *)
(* whose sum exceeds 255 included; it never fails on overflow and, for x     *)
(* other than 0xF, leaves v[0xF] unchanged.                                  *)
C14_AddImmediateWraps ==
    [][RunStep /\ lastInstr' = "7XNN" =>
          /\ ~Panicked(cpu')
          /\ cpu'.v[OpX] = (cpu.v[OpX] + LowByte(lastOpcode')) % 256
          /\ OpX # 15 => cpu'.v[15] = cpu.v[15]]_vars

(* C15: for x other than 0xF, 8xy6 sets v[0xF] to the least significant bit  *)
(* of vx and v[x] to vx div 2; 8xyE sets v[0xF] to the most significant bit  *)
(* of vx and v[x] to (2 * vx) mod 256; v[y] takes no part: the results are   *)
(* those whatever v[y] holds, and v[y] keeps its value.                      *)
C15_ShiftsUseVxOnly ==
    [][/\ StepOf("8XY6") /\ OpX # 15 =>
             /\ cpu'.v[15] = cpu.v[OpX] % 2
             /\ cpu'.v[OpX] = cpu.v[OpX] \div 2
             /\ OpY \notin {OpX, 15} => cpu'.v[OpY] = cpu.v[OpY]
       /\ StepOf("8XYE") /\ OpX # 15 =>
             /\ cpu'.v[15] = cpu.v[OpX] \div 128
             /\ cpu'.v[OpX] = (2 * cpu.v[OpX]) % 256
             /\ OpY \notin {OpX, 15} => cpu'.v[OpY] = cpu.v[OpY]]_vars

\* 0xFF shifted left with v[y] = 1: 0xFE, flag 1, v[y] still 1
C15_Witness ==
    /\ lastAct = "run" /\ ~Panicked(cpu) /\ lastInstr = "8XYE"
    /\ FieldX(lastOpcode) = 1 /\ FieldY(lastOpcode) = 2
    /\ cpu.v[1] = 254 /\ cpu.v[2] = 1 /\ cpu.v[15] = 1

-----------------------------------------------------------------------------
(* Calls and returns *)

(* C16: a step that executes 2nnn at address a increments sp, stores a + 2   *)
(* in stack[sp] and sets pc = nnn; the matching 00EE (the return of the      *)
(* newest call not yet returned from) sets pc to that a + 2 and sp to its    *)
(* value before the call: calls and returns nest last-in-first-out.          *)
C16_CallReturnNest ==
    [][/\ StepOf("2NNN") =>
             /\ cpu'.sp = cpu.sp + 1
             /\ cpu'.stack[cpu'.sp] = cpu.pc + 2
             /\ cpu'.pc = lastOpcode' % 4096
       /\ StepOf("00EE") /\ Len(callLog) > 0 =>
             /\ cpu'.pc = callLog[Len(callLog)].ret
             /\ cpu'.sp = callLog[Len(callLog)].sp]_vars

\* RomCalls after the return of its outer subroutine: the nested call and
\* its return have happened, execution resumes after the first call
C16_Witness ==
    /\ lastRom = 12 /\ lastAct = "run" /\ ~Panicked(cpu) /\ lastInstr = "00EE"
    /\ cpu.pc = 514 /\ cpu.sp = 0 /\ callLog = << >>
    /\ cpu.stack[1] = 514 /\ cpu.stack[2] = 520

(* C17: in every state reached by running a program the stack pointer stays  *)
(* within the stack: no call takes it past the 16 slots and no return takes  *)
(* it below 0, a 00EE with no call pushed included.                          *)
C17_StackPointerInStack ==
    ~Panicked(cpu) => cpu.sp >= 0 /\ cpu.sp <= 15

(* C18: the call stack holds 16 levels: from a fresh machine sixteen nested  *)
(* calls with no return in between all succeed, each saving its return       *)
(* address in a stack slot of its own.                                       *)
C18_SixteenNestedCalls ==
    [][RunStep /\ lastInstr' = "2NNN" /\ Len(callLog) < 16 =>
          /\ ~Panicked(cpu')
          /\ Len(callLog') = Len(callLog) + 1
          /\ cpu'.stack[cpu'.sp] = cpu.pc + 2]_vars

-----------------------------------------------------------------------------
(* The timers *)

\* a timer one tick later
Ticked(timer) == IF timer # 0 THEN timer - 1 ELSE 0

(* C19: update_timers decrements delay_timer by one if it is nonzero and     *)
(* sound_timer by one if it is nonzero, each independently of the other; a   *)
(* timer at 0 stays at 0 and neither ever goes below 0.                      *)
C19_TickDecrementsEachTimer ==
    [][lastAct' = "update_timers" =>
          /\ cpu'.delay_timer = Ticked(cpu.delay_timer)
          /\ cpu'.sound_timer = Ticked(cpu.sound_timer)
          /\ cpu'.delay_timer >= 0 /\ cpu'.sound_timer >= 0]_vars

\* the delay timer still counts after the sound timer has reached 0
C19_Witness ==
    /\ lastAct = "update_timers" /\ ~Panicked(cpu)
    /\ cpu.delay_timer = 1 /\ cpu.sound_timer = 0

(* C20: a step ticks the timers if and only if at least one period of        *)
(* 16667 microseconds has passed since the previous tick; the tick takes one *)
(* off each nonzero timer however many periods have passed and restarts the  *)
(* tick clock; a step in which the period has not passed leaves both timers  *)
(* as the instruction left them (no instruction of cpu.rs writes a timer).   *)
C20_StepTicksOncePerPeriod ==
    [][RunReturned =>
          LET due == cpu.tick_period + lastDt' >= TIMER_RATE
          IN  /\ due => /\ cpu'.delay_timer = Ticked(cpu.delay_timer)
                        /\ cpu'.sound_timer = Ticked(cpu.sound_timer)
                        /\ cpu'.tick_period = 0
              /\ ~due => /\ cpu'.delay_timer = cpu.delay_timer
                         /\ cpu'.sound_timer = cpu.sound_timer
                         /\ cpu'.tick_period = cpu.tick_period + lastDt']_vars

\* two periods passed in one step: one tick, (3, 2) to (2, 1)
C20_Witness ==
    /\ lastAct = "run" /\ ~Panicked(cpu) /\ lastTick /\ lastDt = 2 * TIMER_RATE
    /\ lastInstr = "6XNN"
    /\ cpu.delay_timer = 2 /\ cpu.sound_timer = 1 /\ cpu.tick_period = 0

-----------------------------------------------------------------------------
(* The flags the host polls *)

(* C21: after a step in which a timer tick occurred, get_beep_state is true  *)
(* if and only if sound_timer was nonzero at that tick, and                  *)
(* get_display_state is set; both can be read after every step. No          *)
(* instruction of cpu.rs writes sound_timer, so the value the tick finds is  *)
(* the one the step started with.                                            *)
C21_FlagsAfterTick ==
    [][RunReturned /\ lastTick' =>
          /\ get_beep_state(flags') \in BOOLEAN
          /\ get_beep_state(flags') <=> (cpu.sound_timer # 0)
          /\ get_display_state(flags') = TRUE]_vars

\* the tick that takes the sound timer from 1 to 0 still beeps
C21_Witness ==
    /\ lastAct = "run" /\ ~Panicked(cpu) /\ lastTick
    /\ cpu.sound_timer = 0 /\ get_beep_state(flags) /\ get_display_state(flags)

-----------------------------------------------------------------------------
(* Skips *)

\* the step left everything but pc as it was (the timers: unless it ticked)
OnlyPcChanged ==
    /\ cpu'.v = cpu.v /\ cpu'.i = cpu.i
    /\ cpu'.memory = cpu.memory
    /\ cpu'.stack = cpu.stack /\ cpu'.sp = cpu.sp
    /\ cpu'.display = cpu.display
    /\ cpu'.keypad = cpu.keypad
    /\ ~lastTick' => /\ cpu'.delay_timer = cpu.delay_timer
                     /\ cpu'.sound_timer = cpu.sound_timer

\* the step left pc 4 past the instruction if `taken`, 2 past it otherwise
SkipsIff(taken) == cpu'.pc = cpu.pc + (IF taken THEN 4 ELSE 2)

\* whether instruction `name` skips when executed at the state of this step
WouldSkip(name) ==
    LET s1 == [cpu EXCEPT !.pc = cpu.pc + 2]
        s2 == CASE name = "3XNN" -> instruction_3xnn(s1, OpX, LowByte(lastOpcode'))
                [] name = "4XNN" -> instruction_4xnn(s1, OpX, LowByte(lastOpcode'))
                [] name = "5XY0" -> instruction_5xy0(s1, OpX, OpY)
                [] name = "9XY0" -> instruction_9xy0(s1, OpX, OpY)
                [] name = "EX9E" -> instruction_ex9e(s1, OpX)
                [] name = "EXA1" -> instruction_exa1(s1, OpX)
    IN  s2.pc = cpu.pc + 4

(* C22: for 3xnn, 4xnn, 5xy0 and 9xy0 one step leaves pc 4 past the          *)
(* instruction when its condition holds (vx = nn, vx /= nn, vx = vy,         *)
(* vx /= vy) and 2 past it otherwise, and changes no register, memory,       *)
(* stack, timer or display state; on the same state exactly one of 3xnn and  *)
(* 4xnn skips and exactly one of 5xy0 and 9xy0 skips.                        *)
C22_ConditionalSkips ==
    [][/\ StepOf("3XNN") => SkipsIff(cpu.v[OpX] = LowByte(lastOpcode')) /\ OnlyPcChanged
       /\ StepOf("4XNN") => SkipsIff(cpu.v[OpX] # LowByte(lastOpcode')) /\ OnlyPcChanged
       /\ StepOf("5XY0") => SkipsIff(cpu.v[OpX] = cpu.v[OpY]) /\ OnlyPcChanged
       /\ StepOf("9XY0") => SkipsIff(cpu.v[OpX] # cpu.v[OpY]) /\ OnlyPcChanged
       /\ StepOf("3XNN") \/ StepOf("4XNN") => WouldSkip("3XNN") # WouldSkip("4XNN")
       /\ StepOf("5XY0") \/ StepOf("9XY0") => WouldSkip("5XY0") # WouldSkip("9XY0")]_vars

\* 4xnn with v[x] = 0x7F and nn = 0x80: the skip is taken
C22_Witness ==
    /\ lastAct = "run" /\ ~Panicked(cpu) /\ lastInstr = "4XNN"
    /\ FieldX(lastOpcode) = 1 /\ LowByte(lastOpcode) = 128 /\ cpu.v[1] = 127
    /\ cpu.pc = 520

(* C23: for v[x] in 0..15, Ex9E leaves pc 4 past the instruction if and only *)
(* if key v[x] is pressed and ExA1 if and only if it is not pressed; neither *)
(* changes the keypad or any register, and on the same state exactly one of  *)
(* the two skips.                                                            *)
C23_KeySkips ==
    [][/\ StepOf("EX9E") /\ cpu.v[OpX] \in 0 .. 15 =>
             SkipsIff(cpu.keypad[cpu.v[OpX]]) /\ OnlyPcChanged
       /\ StepOf("EXA1") /\ cpu.v[OpX] \in 0 .. 15 =>
             SkipsIff(~cpu.keypad[cpu.v[OpX]]) /\ OnlyPcChanged
       /\ (StepOf("EX9E") \/ StepOf("EXA1")) /\ cpu.v[OpX] \in 0 .. 15 =>
             WouldSkip("EX9E") # WouldSkip("EXA1")]_vars

\* Ex9E on key 15 while keys 0 and 15 are held: the skip is taken
C23_Witness ==
    /\ lastAct = "run" /\ ~Panicked(cpu) /\ lastInstr = "EX9E"
    /\ cpu.v[3] = 15 /\ cpu.keypad[15] /\ cpu.keypad[0] /\ ~cpu.keypad[7]
    /\ cpu.pc = 518

-----------------------------------------------------------------------------
(* The Fx.. instructions *)

(* C24: for every vx, Fx33 writes the hundreds, tens and units digits of vx  *)
(* to memory[index], memory[index+1], memory[index+2]: each byte is in 0..9  *)
(* and 100*memory[index] + 10*memory[index+1] + memory[index+2] = vx; no     *)
(* other memory byte and no register changes.                                *)
C24_DecimalDigits ==
    [][StepOf("FX33") =>
          LET idx == cpu.i
          IN  /\ \A k \in 0 .. 2 : cpu'.memory[idx + k] \in 0 .. 9
              /\ 100 * cpu'.memory[idx] + 10 * cpu'.memory[idx + 1] + cpu'.memory[idx + 2]
                    = cpu.v[OpX]
              /\ \A a \in 0 .. 4095 :
                    a \notin idx .. idx + 2 => cpu'.memory[a] = cpu.memory[a]
              /\ cpu'.v = cpu.v /\ cpu'.i = cpu.i]_vars

(* C25: Fx55 copies v[0..x] to memory[index .. index+x] and changes no       *)
(* register and no other memory byte; Fx65 copies memory[index .. index+x]   *)
(* into v[0..x] and changes no memory and no register above x.               *)
C25_StoreAndLoadRegisters ==
    [][/\ StepOf("FX55") =>
             /\ \A k \in 0 .. OpX : cpu'.memory[cpu.i + k] = cpu.v[k]
             /\ \A a \in 0 .. 4095 :
                   a \notin cpu.i .. cpu.i + OpX => cpu'.memory[a] = cpu.memory[a]
             /\ cpu'.v = cpu.v
       /\ StepOf("FX65") =>
             /\ \A k \in 0 .. OpX : cpu'.v[k] = cpu.memory[cpu.i + k]
             /\ \A r \in 0 .. 15 : r > OpX => cpu'.v[r] = cpu.v[r]
             /\ cpu'.memory = cpu.memory]_vars

\* the font area of s is as Cpu::new left it
FontIntact(s) == \A k \in 1 .. Len(CHIP8_FONT) : s.memory[FONT_ADDRESS + k - 1] = CHIP8_FONT[k]

(* C26: Fx29 sets index to 0x050 + 5 * v[x]; for v[x] in 0..15, with the     *)
(* font area not overwritten, memory[index .. index+4] is then the glyph of  *)
(* that hexadecimal digit.                                                   *)
C26_GlyphAddress ==
    [][StepOf("FX29") =>
          /\ cpu'.i = 80 + 5 * cpu.v[OpX]
          /\ cpu.v[OpX] \in 0 .. 15 /\ FontIntact(cpu) =>
                \A k \in 0 .. 4 : cpu'.memory[cpu'.i + k] = CHIP8_FONT[5 * cpu.v[OpX] + k + 1]]_vars

(* C27: Fx07 sets v[x] to delay_timer, Fx15 sets delay_timer to v[x], Fx18   *)
(* sets sound_timer to v[x], each changing nothing else (a tick at the end   *)
(* of the step then takes one off a nonzero timer).                          *)
C27_TimerTransfers ==
    [][/\ StepOf("FX07") =>
             /\ cpu'.v = [cpu.v EXCEPT ![OpX] = cpu.delay_timer]
             /\ ~lastTick' => /\ cpu'.delay_timer = cpu.delay_timer
                              /\ cpu'.sound_timer = cpu.sound_timer
       /\ StepOf("FX15") =>
             /\ cpu'.delay_timer = IF lastTick' THEN Ticked(cpu.v[OpX]) ELSE cpu.v[OpX]
             /\ cpu'.v = cpu.v
             /\ ~lastTick' => cpu'.sound_timer = cpu.sound_timer
       /\ StepOf("FX18") =>
             /\ cpu'.sound_timer = IF lastTick' THEN Ticked(cpu.v[OpX]) ELSE cpu.v[OpX]
             /\ cpu'.v = cpu.v
             /\ ~lastTick' => cpu'.delay_timer = cpu.delay_timer]_vars

\* bit b of the byte n
BitOf(n, b) == (n \div Pow2(b)) % 2

(* C28: for every byte the generator returns, Cxnn leaves v[x] = nn AND that *)
(* byte, bit by bit: v[x] has no bit set outside nn (Cx00 gives 0, Cx0F a    *)
(* value below 16), and no other register changes.                           *)
C28_RandomIsMasked ==
    [][StepOf("CXNN") =>
          LET nn == LowByte(lastOpcode')
          IN  /\ cpu'.v[OpX] \in 0 .. 255
              /\ \A b \in 0 .. 7 :
                    BitOf(cpu'.v[OpX], b) = BitOf(nn, b) * BitOf(lastRnd', b)
              /\ nn = 0 => cpu'.v[OpX] = 0
              /\ nn = 15 => cpu'.v[OpX] < 16
              /\ \A r \in 0 .. 15 : r # OpX => cpu'.v[r] = cpu.v[r]]_vars

\* C1F0 with the byte 0xA5: V1 = 0xA0, V2 still 7
C28_Witness ==
    /\ lastAct = "run" /\ ~Panicked(cpu) /\ lastInstr = "CXNN"
    /\ lastOpcode = \hC1F0 /\ lastRnd = 165
    /\ cpu.v[1] = 160 /\ cpu.v[2] = 7

-----------------------------------------------------------------------------
(* The keypad *)

(* C29: press_key(k) makes key k pressed and release_key(k) makes it         *)
(* released, changing no other key and nothing else of the machine; the      *)
(* keypad changes through these two operations only, never through the       *)
(* execution of an instruction (nor through the loading of the ROM).         *)
C29_KeypadFrame ==
    [][/\ lastAct' = "press_key" /\ ~Panicked(cpu') =>
             /\ cpu' = [cpu EXCEPT !.keypad[lastKey'] = TRUE]
             /\ flags' = flags
       /\ lastAct' = "release_key" /\ ~Panicked(cpu') =>
             /\ cpu' = [cpu EXCEPT !.keypad[lastKey'] = FALSE]
             /\ flags' = flags
       /\ lastAct' \in {"run", "load"} => cpu'.keypad = cpu.keypad]_vars

\* key 7 released while key 15 stays held, a program loaded
C29_Witness ==
    /\ lastAct = "release_key" /\ lastKey = 7 /\ ~Panicked(cpu) /\ lastRom = 6
    /\ ~cpu.keypad[7] /\ cpu.keypad[15] /\ cpu.v[3] = 7

C31_NoBorrowFlag ==
    [][/\ StepOf("8XY5") /\ OpX # 15 =>
             cpu'.v[15] = IF cpu.v[OpX] >= cpu.v[OpY] THEN 1 ELSE 0
       /\ StepOf("8XY7") /\ OpX # 15 =>
             cpu'.v[15] = IF cpu.v[OpY] >= cpu.v[OpX] THEN 1 ELSE 0]_vars

\* the address field nnn of the instruction of the step
OpNNN == lastOpcode' % 4096

(* C32 as stated: the program counter is even in every reachable state.      *)
C32_PcAlwaysEven == cpu.pc % 2 = 0

(* C32: a step changes the parity of the program counter only by a transfer  *)
(* of control: every step that returns either leaves pc mod 2 as it was, or  *)
(* is a 1nnn or 2nnn whose pc is then nnn, a Bnnn whose pc is then           *)
(* nnn + v[0], or a 00EE whose pc is then the return address on top of the   *)
(* stack; a load and a key press or release leave pc unchanged.  So pc is    *)
(* even as long as no jump, call or Bnnn with an odd target has been taken.  *)
C32_PcParity ==
    [][/\ RunReturned =>
             \/ cpu'.pc % 2 = cpu.pc % 2
             \/ lastInstr' \in {"1NNN", "2NNN"} /\ cpu'.pc = OpNNN
             \/ lastInstr' = "BNNN" /\ cpu'.pc = OpNNN + cpu.v[0]
             \/ lastInstr' = "00EE" /\ cpu'.pc = cpu.stack[cpu.sp]
       /\ lastAct' \in {"load", "press_key", "release_key"} =>
             cpu'.pc = cpu.pc]_vars

\* a spin at an odd address reached through an odd jump, a call and a return
C32_Witness ==
    /\ lastAct = "run" /\ ~Panicked(cpu) /\ lastInstr = "1NNN"
    /\ lastOpcode = \h120B /\ cpu.pc = \h20B /\ cpu.sp = 0 /\ cpu.stack[1] = \h20B

\* some cell of the display of s is lit
Lit(s) == \E c \in 0 .. DISPLAY_WIDTH * DISPLAY_HEIGHT - 1 : s.display[c]

(* C33: the display is mutated only by 00E0 and Dxyn: a step that executes   *)
(* any other instruction (its timer tick included), a ROM load and a key     *)
(* press or release leave all 2048 cells unchanged; 00E0 leaves every cell   *)
(* unlit and changes nothing else of the machine (the step that executes it  *)
(* advances pc by 2 and ticks the timers as every step does).                *)
C33_DisplayFrame ==
    [][/\ RunReturned /\ lastInstr' \notin {"00E0", "DXYN"} =>
             cpu'.display = cpu.display
       /\ lastAct' \in {"load", "press_key", "release_key"} =>
             cpu'.display = cpu.display
       /\ StepOf("00E0") =>
             /\ \A c \in 0 .. DISPLAY_WIDTH * DISPLAY_HEIGHT - 1 : ~cpu'.display[c]
             /\ cpu'.pc = cpu.pc + 2
             /\ cpu'.v = cpu.v /\ cpu'.i = cpu.i
             /\ cpu'.memory = cpu.memory
             /\ cpu'.stack = cpu.stack /\ cpu'.sp = cpu.sp
             /\ cpu'.keypad = cpu.keypad
             /\ cpu'.delay_timer = Ticked(cpu.delay_timer)
             /\ cpu'.sound_timer = Ticked(cpu.sound_timer)]_vars

\* the glyph drawn at (0, 0) before the 00E0 at 0x210 is gone, the key the
\* host pressed is still held
C33_Witness ==
    /\ lastAct = "run" /\ ~Panicked(cpu) /\ lastInstr = "00E0"
    /\ cpu.pc = \h212 /\ WordAtPc([cpu EXCEPT !.pc = \h20C]) = \hD010
    /\ ~Lit(cpu) /\ cpu.keypad[7] /\ cpu.i = \h300 /\ cpu.v[0] = 60

(* C34: no step accesses an array out of range: the fetch of every step      *)
(* reads pc and pc + 1 inside 0..4095, the rows of a Dxyn are read from      *)
(* addresses i .. i + n - 1 inside 0..4095, and the keypad lookup of Ex9E    *)
(* and ExA1 uses an index v[x] inside 0..15.                                 *)
C34_AccessesInRange ==
    [][RunStep =>
          /\ cpu.pc + 1 < MEMORY_SIZE
          /\ lastInstr' = "DXYN" /\ FieldN(lastOpcode') > 0 =>
                cpu.i + FieldN(lastOpcode') - 1 < MEMORY_SIZE
          /\ lastInstr' \in {"EX9E", "EXA1"} => cpu.v[OpX] < 16]_vars

\* this transition is the second of two successive run() steps that execute
\* the same Dxyn, with x and y other than 0xF
SecondDraw ==
    /\ StepOf("DXYN") /\ lastAct = "run" /\ lastOpcode = lastOpcode'
    /\ OpX # 15 /\ OpY # 15

\* the sprite of the Dxyn of the step has a set bit
SpriteHasBit ==
    \E r \in 0 .. FieldN(lastOpcode') - 1 : cpu.memory[cpu.i + r] # 0

\* the sprite of the Dxyn of the step has a set bit on a cell that is lit in d
SpriteMeets(d) ==
    \E row \in 0 .. DISPLAY_HEIGHT - 1 : \E col \in 0 .. DISPLAY_WIDTH - 1 :
        /\ SpriteCovers(cpu, cpu.v[OpX], cpu.v[OpY], FieldN(lastOpcode'), row, col)
        /\ d[DISPLAY_WIDTH * row + col]

(* C35 as stated: executing the same Dxyn (x and y other than 0xF) twice in  *)
(* a row restores the display to its state before the first draw, and the    *)
(* second draw leaves v[0xF] = 1 if the sprite has at least one set bit and  *)
(* 0 otherwise.                                                              *)
C35_DrawTwiceFlagsAnySprite ==
    [][SecondDraw =>
          /\ cpu'.display = lastDisplay
          /\ cpu'.v[15] = IF SpriteHasBit THEN 1 ELSE 0]_vars

(* C35: executing the same Dxyn (x and y other than 0xF) twice in a row      *)
(* restores the display to exactly its state before the first draw, and the  *)
(* second draw leaves v[0xF] = 1 if a set bit of the sprite lies on a cell   *)
(* that the first draw lit, that is, on a cell that was unlit before the     *)
(* first draw, and 0 otherwise.                                              *)
C35_DrawTwiceRestores ==
    [][SecondDraw =>
          /\ cpu'.display = lastDisplay
          /\ cpu'.v[15] = IF SpriteMeets(cpu.display) THEN 1 ELSE 0
          /\ SpriteMeets(cpu.display) <=>
                SpriteMeets([c \in 0 .. DISPLAY_WIDTH * DISPLAY_HEIGHT - 1 |->
                                ~lastDisplay[c]])]_vars

\* the second draw of the glyph "0" at (60, 30), wrapping around both edges,
\* over a display that holds another glyph at (0, 0)
C35_Witness ==
    /\ lastAct = "run" /\ ~Panicked(cpu) /\ lastOpcode = \hD015 /\ cpu.pc = \h210
    /\ cpu.v[0] = 60 /\ cpu.v[1] = 30 /\ cpu.i = \h050 /\ cpu.v[15] = 1
    /\ lastDisplay[DISPLAY_WIDTH * 30 + 60] /\ ~cpu.display[DISPLAY_WIDTH * 30 + 60]
    /\ lastDisplay[DISPLAY_WIDTH * 31 + 63] /\ ~cpu.display[DISPLAY_WIDTH * 31 + 63]
    /\ cpu.display[0]

\* the value 8xy4, 8xy5, 8xy7 compute for v[x] from the registers of s
ResultOf(name, s, x, y) ==
    CASE name = "8XY4" -> (s.v[x] + s.v[y]) % 256
      [] name = "8XY5" -> (s.v[x] - s.v[y]) % 256
      [] name = "8XY7" -> (s.v[y] - s.v[x]) % 256

(* C36: instructions that write the flag read their register operands as     *)
(* they were before the instruction: with y = 0xF, 8xy4, 8xy5 and 8xy7       *)
(* compute v[x] and the flag from the v[0xF] held when the instruction       *)
(* started; a Dxyn with x = 0xF or y = 0xF flips exactly the cells that the  *)
(* sprite covers from the origin (v[x], v[y]) held when it started.          *)
C36_OperandsReadBefore ==
    [][/\ \A name \in {"8XY4", "8XY5", "8XY7"} :
             StepOf(name) /\ OpY = 15 /\ OpX # 15 =>
                /\ cpu'.v[OpX] = ResultOf(name, cpu, OpX, OpY)
                /\ cpu'.v[15] = FlagOf(name, cpu, OpX, OpY)
       /\ StepOf("DXYN") /\ (OpX = 15 \/ OpY = 15) =>
             \A row \in 0 .. DISPLAY_HEIGHT - 1 : \A col \in 0 .. DISPLAY_WIDTH - 1 :
                cpu'.display[DISPLAY_WIDTH * row + col] =
                    (cpu.display[DISPLAY_WIDTH * row + col] #
                     SpriteCovers(cpu, cpu.v[OpX], cpu.v[OpY],
                                  FieldN(lastOpcode'), row, col))]_vars

(* C37: while steps keep being taken and timer periods keep elapsing, each   *)
(* timer eventually reaches 0 and stays 0 from then on, and no operation     *)
(* ever increases a timer on the way, whatever instructions are executed     *)
(* (no instruction of this code reloads a timer).                            *)
C37_TimersRunDown ==
    /\ <>[](cpu.delay_timer = 0 /\ cpu.sound_timer = 0)
    /\ [][/\ cpu'.delay_timer <= cpu.delay_timer
          /\ cpu'.sound_timer <= cpu.sound_timer]_vars

\* the tick that takes the sound timer from 1 to 0 (it beeps), the delay
\* timer being at 0, in the loop of the program
C37_Witness ==
    /\ lastAct = "run" /\ lastTick /\ ~Panicked(cpu) /\ lastInstr = "1NNN"
    /\ flags.beep /\ cpu.sound_timer = 0 /\ cpu.delay_timer = 0

====
